---- MODULE Spec2Model ----
(***************************************************************************)
(* UPC-A renderer (src/upc-a-renderer.js): checksum, input normalisation,  *)
(* validation, formatting and symbol encoding.                             *)
(*                                                                         *)
(* A JavaScript string is a sequence of one-character strings.  A call's   *)
(* outcome is a record: [kind |-> "number" | "string" | "boolean",         *)
(* value |-> v], [kind |-> "object", encoding |-> s, fullCode |-> s] or,   *)
(* for a thrown Error, [kind |-> "throw", message |-> m].                  *)
(***************************************************************************)
EXTENDS Integers, Sequences, FiniteSets, TLC

VARIABLES
    code,      \* the string passed as the `code` argument
    options,   \* the options object passed (its `checksum` property)
    op,        \* the public function called last ("none" before any call)
    ret,       \* what that call returned or threw
    origin,    \* how the caller obtained `code`
    target,    \* the element reference passed to a renderer
    element    \* the canvas or svg element of the page

vars == <<code, options, op, ret, origin, target, element>>

----------------------------------------------------------------------------
(* Characters and string primitives of the host language                   *)

DigitChars == {"0", "1", "2", "3", "4", "5", "6", "7", "8", "9"}

\* parseInt of a one-character decimal string
parseInt(c) ==
    CASE c = "0" -> 0 [] c = "1" -> 1 [] c = "2" -> 2 [] c = "3" -> 3
      [] c = "4" -> 4 [] c = "5" -> 5 [] c = "6" -> 6 [] c = "7" -> 7
      [] c = "8" -> 8 [] c = "9" -> 9

\* the decimal text of a number 0..9, as `string + number` appends it
numberToString(n) ==
    << <<"0", "1", "2", "3", "4", "5", "6", "7", "8", "9">>[n + 1] >>

IsDigit(c) == c \in DigitChars

\* String(code).replace(/\D/g, '')
stripNonDigits(s) == SelectSeq(s, IsDigit)

\* s.padStart(n, c)
padStart(s, n, c) ==
    IF Len(s) >= n THEN s ELSE [i \in 1..(n - Len(s)) |-> c] \o s

\* s.substring(from, to) and s.slice(from, to) for 0 <= from <= to
substring(s, from, to) ==
    LET hi == IF to > Len(s) THEN Len(s) ELSE to
        lo == IF from > hi THEN hi ELSE from
    IN  SubSeq(s, lo + 1, hi)

----------------------------------------------------------------------------
(* Encoding tables                                                         *)

L_CODES ==
    << <<"0","0","0","1","1","0","1">>,
       <<"0","0","1","1","0","0","1">>,
       <<"0","0","1","0","0","1","1">>,
       <<"0","1","1","1","1","0","1">>,
       <<"0","1","0","0","0","1","1">>,
       <<"0","1","1","0","0","0","1">>,
       <<"0","1","0","1","1","1","1">>,
       <<"0","1","1","1","0","1","1">>,
       <<"0","1","1","0","1","1","1">>,
       <<"0","0","0","1","0","1","1">> >>

R_CODES ==
    << <<"1","1","1","0","0","1","0">>,
       <<"1","1","0","0","1","1","0">>,
       <<"1","1","0","1","1","0","0">>,
       <<"1","0","0","0","0","1","0">>,
       <<"1","0","1","1","1","0","0">>,
       <<"1","0","0","1","1","1","0">>,
       <<"1","0","1","0","0","0","0">>,
       <<"1","0","0","0","1","0","0">>,
       <<"1","0","0","1","0","0","0">>,
       <<"1","1","1","0","1","0","0">> >>

----------------------------------------------------------------------------
(* calculateChecksum                                                       *)

\* mutant: the two weights exchanged
weight_Swapped(i) == IF i % 2 = 0 THEN 1 ELSE 3

\* (i % 2 === 0 ? 3 : 1)
weight(i) == IF i % 2 = 0 THEN 3 ELSE 1

RECURSIVE checksumLoop(_, _, _)
checksumLoop(code11, i, sum) ==
    IF i < 11
    THEN checksumLoop(code11, i + 1,
                      sum + parseInt(code11[i + 1]) * weight(i))
    ELSE sum

calculateChecksum(arg) ==
    LET stripped == stripNonDigits(arg)
        padded   == IF Len(stripped) < 11 THEN padStart(stripped, 11, "0")
                    ELSE stripped
        code11   == substring(padded, 0, 11)
        sum      == checksumLoop(code11, 0, 0)
    IN  (10 - (sum % 10)) % 10

----------------------------------------------------------------------------
(* normalizeInput                                                          *)

Undefined == "undefined"

\* the values of options.checksum: absent, or one of the documented modes
ChecksumOptions == {Undefined, "auto", "validate", "recalculate"}

Return(kind, v) == [kind |-> kind, value |-> v]
Throw(m) == [kind |-> "throw", message |-> m]

InvalidChecksumMessage(calculatedCheck, providedCheck) ==
    <<"Invalid UPC-A checksum: expected ">> \o numberToString(calculatedCheck)
        \o <<", got ">> \o numberToString(providedCheck)

InvalidLengthMessage == <<"UPC-A requires 11 or 12 digits">>

\* if (code.length === 11)
normalizeEleven(digits) ==
    Return("string", digits \o numberToString(calculateChecksum(digits)))

\* mutant: policy validate is not recognised and falls to the last branch
normalizeTwelve_IgnoresValidate(digits, checksumMode) ==
    Return("string", substring(digits, 0, 11)
               \o numberToString(calculateChecksum(substring(digits, 0, 11))))

\* mutant: policy auto checks the digit as validate does
normalizeTwelve_AutoValidates(digits, checksumMode) ==
    LET providedCheck   == parseInt(digits[12])
        calculatedCheck == calculateChecksum(substring(digits, 0, 11))
    IN  IF checksumMode # "recalculate"
        THEN IF providedCheck # calculatedCheck
             THEN Throw(InvalidChecksumMessage(calculatedCheck, providedCheck))
             ELSE Return("string", digits)
        ELSE Return("string", substring(digits, 0, 11)
                                  \o numberToString(calculatedCheck))

\* mutant: policy auto accepts the twelve digits as given
normalizeTwelve_AutoKeeps(digits, checksumMode) ==
    LET providedCheck   == parseInt(digits[12])
        calculatedCheck == calculateChecksum(substring(digits, 0, 11))
    IN  IF checksumMode = "validate"
        THEN IF providedCheck # calculatedCheck
             THEN Throw(InvalidChecksumMessage(calculatedCheck, providedCheck))
             ELSE Return("string", digits)
        ELSE IF checksumMode = "recalculate"
        THEN Return("string", substring(digits, 0, 11)
                                  \o numberToString(calculatedCheck))
        ELSE Return("string", digits)

\* if (code.length === 12)
normalizeTwelve(digits, checksumMode) ==
    LET providedCheck   == parseInt(digits[12])
        calculatedCheck == calculateChecksum(substring(digits, 0, 11))
    IN  IF checksumMode = "validate"
        THEN IF providedCheck # calculatedCheck
             THEN Throw(InvalidChecksumMessage(calculatedCheck, providedCheck))
             ELSE Return("string", digits)
        ELSE IF checksumMode = "recalculate"
        THEN Return("string", substring(digits, 0, 11)
                                  \o numberToString(calculatedCheck))
        ELSE Return("string", substring(digits, 0, 11)
                                  \o numberToString(calculatedCheck))

\* mutant: fewer than 11 digits are refused, as the error message words it
normalizeShorter_Rejects(digits) == Throw(InvalidLengthMessage)

\* mutant: the zeros are written after the digits
normalizeShorter_PadEnd(digits) ==
    LET padded == digits \o [i \in 1..(11 - Len(digits)) |-> "0"]
    IN  Return("string", padded \o numberToString(calculateChecksum(padded)))

\* if (code.length < 11)
normalizeShorter(digits) ==
    LET padded == padStart(digits, 11, "0")
    IN  Return("string", padded \o numberToString(calculateChecksum(padded)))

normalizeInput(arg, opts) ==
    LET digits       == stripNonDigits(arg)
        checksumMode == IF opts.checksum = Undefined THEN "auto"
                        ELSE opts.checksum
    IN  IF Len(digits) = 11 THEN normalizeEleven(digits)
        ELSE IF Len(digits) = 12 THEN normalizeTwelve(digits, checksumMode)
        ELSE IF Len(digits) < 11 THEN normalizeShorter(digits)
        ELSE Throw(InvalidLengthMessage)

----------------------------------------------------------------------------
(* validate                                                                *)

\* mutant: the lower limit of the shorter-code test is dropped
validate_AcceptsEmpty(arg) ==
    LET digits == stripNonDigits(arg)
    IN  IF Len(digits) = 12
        THEN Return("boolean",
                    parseInt(digits[12])
                        = calculateChecksum(substring(digits, 0, 11)))
        ELSE Return("boolean", Len(digits) < 12)

validate(arg) ==
    LET digits == stripNonDigits(arg)
    IN  IF Len(digits) = 11 THEN Return("boolean", TRUE)
        ELSE IF Len(digits) = 12
        THEN Return("boolean",
                    parseInt(digits[12])
                        = calculateChecksum(substring(digits, 0, 11)))
        ELSE IF Len(digits) > 0 /\ Len(digits) < 11
        THEN Return("boolean", TRUE)
        ELSE Return("boolean", FALSE)

----------------------------------------------------------------------------
(* formatUPC                                                               *)

NoOptions == [checksum |-> Undefined]

\* code12.slice(0, 1) + '-' + code12.slice(1, 6) + '-' + ...
hyphenate(code12) ==
    substring(code12, 0, 1) \o <<"-">> \o substring(code12, 1, 6) \o <<"-">>
        \o substring(code12, 6, 11) \o <<"-">>
        \o substring(code12, 11, Len(code12))

\* mutant: every input goes through normalizeInput
formatUPC_AlwaysNormalizes(arg) ==
    LET normalized == normalizeInput(arg, NoOptions)
    IN  IF normalized.kind = "throw" THEN normalized
        ELSE Return("string", hyphenate(normalized.value))

formatUPC(arg) ==
    LET digits == stripNonDigits(arg)
    IN  IF Len(digits) # 12
        THEN LET normalized == normalizeInput(digits, NoOptions)
             IN  IF normalized.kind = "throw" THEN normalized
                 ELSE Return("string", hyphenate(normalized.value))
        ELSE Return("string", hyphenate(digits))

----------------------------------------------------------------------------
(* encode                                                                  *)

START_GUARD  == <<"1", "0", "1">>
CENTER_GUARD == <<"0", "1", "0", "1", "0">>
END_GUARD    == <<"1", "0", "1">>

\* for (let i = from; i < to; i++) encoding += CODES[parseInt(fullCode[i])]
RECURSIVE encodeLoop(_, _, _, _, _)
encodeLoop(CODES, fullCode, i, to, encoding) ==
    IF i < to
    THEN encodeLoop(CODES, fullCode, i + 1, to,
                    encoding \o CODES[parseInt(fullCode[i + 1]) + 1])
    ELSE encoding

\* mutant: the right half is looked up in the left-hand table
encode_RightUsesLCodes(arg, opts) ==
    LET normalized == normalizeInput(arg, opts)
    IN  IF normalized.kind = "throw" THEN normalized
        ELSE LET fullCode == normalized.value
                 left     == encodeLoop(L_CODES, fullCode, 0, 6, START_GUARD)
                 center   == left \o CENTER_GUARD
                 right    == encodeLoop(L_CODES, fullCode, 6, 12, center)
             IN  [kind |-> "object", encoding |-> right \o END_GUARD,
                  fullCode |-> fullCode]

encode(arg, opts) ==
    LET normalized == normalizeInput(arg, opts)
    IN  IF normalized.kind = "throw" THEN normalized
        ELSE LET fullCode == normalized.value
                 left     == encodeLoop(L_CODES, fullCode, 0, 6, START_GUARD)
                 center   == left \o CENTER_GUARD
                 right    == encodeLoop(R_CODES, fullCode, 6, 12, center)
             IN  [kind |-> "object", encoding |-> right \o END_GUARD,
                  fullCode |-> fullCode]

----------------------------------------------------------------------------
(* Render options and drawing targets                                      *)
(*                                                                         *)
(* Lengths are held in twentieths of a pixel, so that smallDigitFontSize   *)
(* * 0.7, (i + 0.5) * 7 * moduleWidth and (fontSize - smallDigitFontSize)  *)
(* / 2 are exact for whole-pixel options.                                  *)

DEFAULTS ==
    [moduleWidth |-> 2, height |-> 70, guardExtend |-> 10, fontSize |-> 14,
     smallDigitFontSize |-> 10, textMargin |-> 2, quietZone |-> 9,
     outerDigitGap |-> 2, paddingLeft |-> 0, paddingRight |-> 0,
     paddingTop |-> 0, paddingBottom |-> 0, background |-> "#FFFFFF",
     foreground |-> "#000000", font |-> "\"OCR-B\", \"Courier New\", monospace",
     style |-> "notched", checksum |-> "auto"]

\* { ...DEFAULTS, ...options }
mergeOptions(o) ==
    [k \in DOMAIN DEFAULTS |-> IF k \in DOMAIN o THEN o[k] ELSE DEFAULTS[k]]

\* a whole number of pixels, in twentieths of a pixel
px(n) == 20 * n

\* x * 0.7
times07(x) == (x * 7) \div 10

\* (i + 0.5) * 7 * moduleWidth
digitOffset(i, moduleWidth) == ((2 * i + 1) * 7 * moduleWidth) \div 2

\* const isGuard = (i < 3) || (i >= 45 && i < 50) || (i >= 92)
isGuard(i) == (i < 3) \/ (i >= 45 /\ i < 50) \/ (i >= 92)

SVG_NS == "http://www.w3.org/2000/svg"

\* document.querySelector found nothing
Null == [tag |-> "null"]

\* a canvas as the host creates it
BlankCanvas == [tag |-> "canvas", width |-> px(300), height |-> px(150),
                drawn |-> <<>>]

\* an svg element without attributes or children
EmptySvg == [tag |-> "svg", attrs |-> <<>>, children |-> <<>>]

\* ctx.fillRect(x, y, w, h) under the current fillStyle
fillRect(x, y, w, h, fillStyle) ==
    [cmd |-> "fillRect", x |-> x, y |-> y, width |-> w, height |-> h,
     fillStyle |-> fillStyle]

\* ctx.fillText(text, x, y) under the current font, alignment and fillStyle
fillText(text, x, y, size, font, textAlign, fillStyle) ==
    [cmd |-> "fillText", text |-> text, x |-> x, y |-> y, size |-> size,
     font |-> font, textAlign |-> textAlign, textBaseline |-> "top",
     fillStyle |-> fillStyle]

\* a <rect> with the attributes set on it
svgRect(x, y, w, h, fill) ==
    [tag |-> "rect", x |-> x, y |-> y, width |-> w, height |-> h,
     fill |-> fill]

\* a <text> with the attributes set on it
svgText(text, x, y, anchor, font, size, fill) ==
    [tag |-> "text", textContent |-> text, x |-> x, y |-> y,
     anchor |-> anchor, font |-> font, size |-> size, fill |-> fill]

\* svg.setAttribute(name, value)
setAttribute(attrs, name, value) ==
    [k \in DOMAIN attrs \cup {name} |-> IF k = name THEN value ELSE attrs[k]]

InvalidCanvasMessage == <<"Invalid canvas element">>
InvalidSVGMessage == <<"Invalid SVG element">>

----------------------------------------------------------------------------
(* render: the canvas renderer                                             *)

\* the module indices i, in loop order, with encoding[i] === '1'
inkModules(encoding) ==
    SelectSeq([k \in 1..Len(encoding) |-> k - 1],
              LAMBDA i : encoding[i + 1] = "1")

\* for (let i = 0; i < encoding.length; i++) { ... ctx.fillRect ... }
\* x starts at g.startX and grows by moduleWidth per iteration, so
\* iteration i draws at g.startX + i * moduleWidth
renderBars(encoding, g, drawn) ==
    LET ink == inkModules(encoding)
    IN  drawn \o [k \in 1..Len(ink) |->
                     fillRect(g.startX + ink[k] * g.moduleWidth, g.offsetY,
                              g.moduleWidth,
                              IF g.style = "notched" /\ isGuard(ink[k])
                              THEN g.guardHeight ELSE g.height,
                              g.foreground)]

\* the canvas after line 264 onwards: resized, background, bars, digits
renderDraw(opts, encoding, fullCode) ==
    LET moduleWidth     == px(opts.moduleWidth)
        height          == px(opts.height)
        barcodeWidth    == Len(encoding) * moduleWidth
        guardHeight     == IF opts.style = "notched"
                           THEN height + px(opts.guardExtend) ELSE height
        quietZonePx     == opts.quietZone * moduleWidth
        outerDigitWidth == times07(px(opts.smallDigitFontSize))
        leftOuterSpace  == outerDigitWidth + px(opts.outerDigitGap)
        rightOuterSpace == outerDigitWidth + px(opts.outerDigitGap)
        contentWidth    == leftOuterSpace + quietZonePx + barcodeWidth
                               + quietZonePx + rightOuterSpace
        contentHeight   == guardHeight + px(opts.fontSize) + px(opts.textMargin)
        totalWidth      == contentWidth + px(opts.paddingLeft)
                               + px(opts.paddingRight)
        totalHeight     == contentHeight + px(opts.paddingTop)
                               + px(opts.paddingBottom)
        barcodeStartX   == px(opts.paddingLeft) + leftOuterSpace + quietZonePx
        offsetY         == px(opts.paddingTop)
        background      == <<fillRect(0, 0, totalWidth, totalHeight,
                                      opts.background)>>
        bars            == renderBars(encoding,
                               [startX |-> barcodeStartX,
                                moduleWidth |-> moduleWidth, height |-> height,
                                guardHeight |-> guardHeight,
                                style |-> opts.style, offsetY |-> offsetY,
                                foreground |-> opts.foreground],
                               background)
        textY           == offsetY + height + px(opts.textMargin)
        smallDigitY     == textY + (px(opts.fontSize)
                                       - px(opts.smallDigitFontSize)) \div 2
        leftStart       == barcodeStartX + 3 * moduleWidth
        rightStart      == barcodeStartX + 50 * moduleWidth
        endGuardX       == barcodeStartX + Len(encoding) * moduleWidth
        firstDigit      == <<fillText(fullCode[1],
                                 barcodeStartX - px(opts.outerDigitGap),
                                 smallDigitY, px(opts.smallDigitFontSize),
                                 opts.font, "right", opts.foreground)>>
        leftGroup       == [j \in 1..5 |->
                               fillText(fullCode[(j - 1) + 2],
                                   leftStart + digitOffset(j - 1, moduleWidth),
                                   textY, px(opts.fontSize), opts.font,
                                   "center", opts.foreground)]
        rightGroup      == [j \in 1..5 |->
                               fillText(fullCode[(j - 1) + 7],
                                   rightStart + digitOffset(j - 1, moduleWidth),
                                   textY, px(opts.fontSize), opts.font,
                                   "center", opts.foreground)]
        lastDigit       == <<fillText(fullCode[12],
                                 endGuardX + px(opts.outerDigitGap),
                                 smallDigitY, px(opts.smallDigitFontSize),
                                 opts.font, "left", opts.foreground)>>
    IN  [tag |-> "canvas", width |-> totalWidth, height |-> totalHeight,
         drawn |-> IF opts.fontSize > 0
                   THEN bars \o firstDigit \o leftGroup \o rightGroup
                            \o lastDigit
                   ELSE bars]

render(canvasEl, arg, optionsArg) ==
    IF canvasEl.tag # "canvas"
    THEN [ret |-> Throw(InvalidCanvasMessage), target |-> canvasEl]
    ELSE LET opts    == mergeOptions(optionsArg)
             encoded == encode(arg, [checksum |-> opts.checksum])
         IN  IF encoded.kind = "throw"
             THEN [ret |-> encoded, target |-> canvasEl]
             ELSE [ret |-> Return("element", "canvas"),
                   target |-> renderDraw(opts, encoded.encoding,
                                         encoded.fullCode)]

----------------------------------------------------------------------------
(* renderSVG: the SVG renderer                                             *)

\* mutant: the SVG copy of the loop gives every bar the main height
renderSVGBars_NoGuardHeight(encoding, g, children) ==
    LET ink == inkModules(encoding)
    IN  children \o [k \in 1..Len(ink) |->
                        svgRect(g.startX + ink[k] * g.moduleWidth, g.offsetY,
                                g.moduleWidth, g.height, g.foreground)]

\* for (let i = 0; i < encoding.length; i++) { ... svg.appendChild(bar) ... }
\* iteration i appends its rect at g.startX + i * moduleWidth
renderSVGBars(encoding, g, children) ==
    LET ink == inkModules(encoding)
    IN  children \o [k \in 1..Len(ink) |->
                        svgRect(g.startX + ink[k] * g.moduleWidth, g.offsetY,
                                g.moduleWidth,
                                IF g.style = "notched" /\ isGuard(ink[k])
                                THEN g.guardHeight ELSE g.height,
                                g.foreground)]

\* mutant: the children are left in place
clearChildren_Keeps(svgEl) == svgEl

\* svg.innerHTML = ''
clearChildren(svgEl) == [svgEl EXCEPT !.children = <<>>]

\* the element after line 397 onwards: cleared, attributes, background,
\* bars, digits
renderSVGDraw(svgEl, opts, encoding, fullCode) ==
    LET moduleWidth     == px(opts.moduleWidth)
        height          == px(opts.height)
        barcodeWidth    == Len(encoding) * moduleWidth
        guardHeight     == IF opts.style = "notched"
                           THEN height + px(opts.guardExtend) ELSE height
        quietZonePx     == opts.quietZone * moduleWidth
        outerDigitWidth == times07(px(opts.smallDigitFontSize))
        leftOuterSpace  == outerDigitWidth + px(opts.outerDigitGap)
        rightOuterSpace == outerDigitWidth + px(opts.outerDigitGap)
        contentWidth    == leftOuterSpace + quietZonePx + barcodeWidth
                               + quietZonePx + rightOuterSpace
        contentHeight   == guardHeight + px(opts.fontSize) + px(opts.textMargin)
        totalWidth      == contentWidth + px(opts.paddingLeft)
                               + px(opts.paddingRight)
        totalHeight     == contentHeight + px(opts.paddingTop)
                               + px(opts.paddingBottom)
        cleared         == clearChildren(svgEl)
        attrs           == setAttribute(setAttribute(setAttribute(setAttribute(
                               cleared.attrs, "xmlns", SVG_NS),
                               "width", totalWidth), "height", totalHeight),
                               "viewBox", <<0, 0, totalWidth, totalHeight>>)
        bgRect          == [tag |-> "rect", width |-> totalWidth,
                            height |-> totalHeight, fill |-> opts.background]
        barcodeStartX   == px(opts.paddingLeft) + leftOuterSpace + quietZonePx
        offsetY         == px(opts.paddingTop)
        bars            == renderSVGBars(encoding,
                               [startX |-> barcodeStartX,
                                moduleWidth |-> moduleWidth, height |-> height,
                                guardHeight |-> guardHeight,
                                style |-> opts.style, offsetY |-> offsetY,
                                foreground |-> opts.foreground],
                               Append(cleared.children, bgRect))
        textY           == offsetY + height + px(opts.textMargin)
                               + px(opts.fontSize)
        smallDigitY     == textY - (px(opts.fontSize)
                                       - px(opts.smallDigitFontSize)) \div 2
        firstDigit      == <<svgText(fullCode[1],
                                 barcodeStartX - px(opts.outerDigitGap),
                                 smallDigitY, "end", opts.font,
                                 px(opts.smallDigitFontSize),
                                 opts.foreground)>>
        leftStart       == barcodeStartX + 3 * moduleWidth
        leftGroup       == [j \in 1..5 |->
                               svgText(fullCode[(j - 1) + 2],
                                   leftStart + digitOffset(j - 1, moduleWidth),
                                   textY, "middle", opts.font,
                                   px(opts.fontSize), opts.foreground)]
        rightStart      == barcodeStartX + 50 * moduleWidth
        rightGroup      == [j \in 1..5 |->
                               svgText(fullCode[(j - 1) + 7],
                                   rightStart + digitOffset(j - 1, moduleWidth),
                                   textY, "middle", opts.font,
                                   px(opts.fontSize), opts.foreground)]
        endGuardX       == barcodeStartX + Len(encoding) * moduleWidth
        lastDigit       == <<svgText(fullCode[12],
                                 endGuardX + px(opts.outerDigitGap),
                                 smallDigitY, "start", opts.font,
                                 px(opts.smallDigitFontSize),
                                 opts.foreground)>>
    IN  [tag |-> "svg", attrs |-> attrs,
         children |-> IF opts.fontSize > 0
                      THEN bars \o firstDigit \o leftGroup \o rightGroup
                               \o lastDigit
                      ELSE bars]

\* mutant: the element is cleared before the code is encoded
renderSVG_ClearsFirst(svgEl, arg, optionsArg) ==
    IF svgEl.tag = "null"
    THEN [ret |-> Throw(InvalidSVGMessage), target |-> svgEl]
    ELSE LET opts    == mergeOptions(optionsArg)
             encoded == encode(arg, [checksum |-> opts.checksum])
         IN  IF encoded.kind = "throw"
             THEN [ret |-> encoded, target |-> clearChildren(svgEl)]
             ELSE [ret |-> Return("element", "svg"),
                   target |-> renderSVGDraw(svgEl, opts, encoded.encoding,
                                            encoded.fullCode)]

renderSVG(svgEl, arg, optionsArg) ==
    IF svgEl.tag = "null"
    THEN [ret |-> Throw(InvalidSVGMessage), target |-> svgEl]
    ELSE LET opts    == mergeOptions(optionsArg)
             encoded == encode(arg, [checksum |-> opts.checksum])
         IN  IF encoded.kind = "throw"
             THEN [ret |-> encoded, target |-> svgEl]
             ELSE [ret |-> Return("element", "svg"),
                   target |-> renderSVGDraw(svgEl, opts, encoded.encoding,
                                            encoded.fullCode)]

----------------------------------------------------------------------------
(* The inputs callers pass                                                 *)

\* longest run of README digits an input starts with
MaxWindow == 13

\* the code the README uses in its examples
README_CODE == <<"0", "1", "2", "3", "4", "5", "6", "7", "8", "9", "0", "5">>

\* n consecutive digits of the README code (read cyclically) from position i
Window(i, n) == [k \in 1..n |-> README_CODE[((i + k - 2) % Len(README_CODE)) + 1]]

Windows == {Window(i, n) : i \in 1..Len(README_CODE), n \in 0..MaxWindow}

\* at most one further digit, any value, after the run
Tails == {<<>>} \cup {<<d>> : d \in DigitChars}

DigitStrings == {w \o t : w \in Windows, t \in Tails}

\* one separator character written anywhere in a run
Separated ==
    UNION {{SubSeq(w, 1, p) \o <<"-">> \o SubSeq(w, p + 1, Len(w)) :
                p \in 0..Len(w)} : w \in Windows}

\* twelve digits written in the 1-5-5-1 grouping
Grouped == {hyphenate(s) : s \in {d \in DigitStrings : Len(d) = 12}}

Inputs == DigitStrings \cup Separated \cup Grouped

FromCaller == [from |-> "caller", checksum |-> Undefined]

----------------------------------------------------------------------------
(* State machine: a caller holding a string calls the public functions     *)

Init ==
    /\ code \in Inputs
    /\ options = NoOptions
    /\ op = "none"
    /\ ret = Return("none", <<>>)
    /\ origin = FromCaller
    /\ target = "none"
    /\ element = Null

CallCalculateChecksum ==
    /\ op' = "calculateChecksum"
    /\ options' = NoOptions
    /\ ret' = Return("number", calculateChecksum(code))
    /\ UNCHANGED <<code, origin, target, element>>

CallNormalizeInput ==
    \E c \in ChecksumOptions :
        /\ op' = "normalizeInput"
        /\ options' = [checksum |-> c]
        /\ ret' = normalizeInput(code, [checksum |-> c])
        /\ UNCHANGED <<code, origin, target, element>>

CallValidate ==
    /\ op' = "validate"
    /\ options' = NoOptions
    /\ ret' = validate(code)
    /\ UNCHANGED <<code, origin, target, element>>

CallFormatUPC ==
    /\ op' = "formatUPC"
    /\ options' = NoOptions
    /\ ret' = formatUPC(code)
    /\ UNCHANGED <<code, origin, target, element>>

CallEncode ==
    \E c \in ChecksumOptions :
        /\ op' = "encode"
        /\ options' = [checksum |-> c]
        /\ ret' = encode(code, [checksum |-> c])
        /\ UNCHANGED <<code, origin, target, element>>

\* the caller passes the code normalizeInput returned as the next input,
\* as in normalizeInput(normalizeInput(x, a), b)
PassNormalized ==
    /\ op = "normalizeInput"
    /\ ret.kind = "string"
    /\ origin = FromCaller
    /\ code' = ret.value
    /\ origin' = [from |-> "normalizeInput", checksum |-> options.checksum]
    /\ options' = NoOptions
    /\ op' = "none"
    /\ ret' = Return("none", <<>>)
    /\ UNCHANGED <<target, element>>

Next ==
    \/ CallCalculateChecksum
    \/ CallNormalizeInput
    \/ CallValidate
    \/ CallFormatUPC
    \/ CallEncode
    \/ PassNormalized

Spec == Init /\ [][Next]_vars

----------------------------------------------------------------------------
(* State machine: a page with one element, rendered to again and again     *)

\* the codes passed: valid, wrong check digit, short, too long
RenderCodes ==
    {README_CODE,
     <<"0", "1", "2", "3", "4", "5", "6", "7", "8", "9", "0", "0">>,
     <<"1", "2", "3", "4", "5">>,
     README_CODE \o <<"0">>}

\* the options objects passed
RenderOptions ==
    {<<>>,
     [moduleWidth |-> 3, quietZone |-> 0, outerDigitGap |-> 0],
     [moduleWidth |-> 1, fontSize |-> 0],
     [fontSize |-> 10, smallDigitFontSize |-> 12, textMargin |-> 0,
      paddingLeft |-> 5, paddingRight |-> 4, paddingTop |-> 3,
      paddingBottom |-> 6],
     [style |-> "flat", height |-> 50, guardExtend |-> 5],
     [checksum |-> "validate"]}

\* an svg element that already has attributes and a child
UsedSvg ==
    [tag |-> "svg",
     attrs |-> [width |-> px(1), height |-> px(1), class |-> "barcode"],
     children |-> <<[tag |-> "title", textContent |-> "old"]>>]

\* what the reference passed resolves to
resolve(ref) == IF ref = "element" THEN element ELSE Null

InitRender ==
    /\ code = <<>>
    /\ options = <<>>
    /\ op = "none"
    /\ ret = Return("none", <<>>)
    /\ origin = FromCaller
    /\ target = "none"
    /\ element \in {BlankCanvas, EmptySvg, UsedSvg}

CallRender ==
    \E c \in RenderCodes, o \in RenderOptions, t \in {"element", "missing"} :
        LET call == render(resolve(t), c, o)
        IN  /\ op' = "render"
            /\ code' = c
            /\ options' = o
            /\ target' = t
            /\ ret' = call.ret
            /\ element' = IF t = "element" THEN call.target ELSE element
            /\ UNCHANGED origin

\* renderSVG is handed the svg element or a reference that resolves to
\* nothing
CallRenderSVG ==
    \E c \in RenderCodes, o \in RenderOptions, t \in {"element", "missing"} :
        /\ t = "element" => element.tag = "svg"
        /\ LET call == renderSVG(resolve(t), c, o)
           IN  /\ op' = "renderSVG"
               /\ code' = c
               /\ options' = o
               /\ target' = t
               /\ ret' = call.ret
               /\ element' = IF t = "element" THEN call.target ELSE element
               /\ UNCHANGED origin

NextRender ==
    \/ CallRender
    \/ CallRenderSVG

SpecRender == InitRender /\ [][NextRender]_vars

----------------------------------------------------------------------------
(* Vocabulary of the properties, stated without the operators above        *)

Numerals == <<"0", "1", "2", "3", "4", "5", "6", "7", "8", "9">>

\* the number a digit character denotes
DigitValue(c) == (CHOOSE k \in 1..10 : Numerals[k] = c) - 1

\* the digit characters of s, in order
DigitsOf(s) == SelectSeq(s, LAMBDA c : \E k \in 1..10 : Numerals[k] = c)

HasNonDigit(s) == Len(DigitsOf(s)) < Len(s)

\* d (at most 11 digits) left-padded with "0" to 11 digits
LeftPad11(d) ==
    [i \in 1..11 |-> IF i <= 11 - Len(d) THEN "0" ELSE d[i - (11 - Len(d))]]

\* the first 11 digits of d (at least 11 digits)
First11(d) == [i \in 1..11 |-> d[i]]

\* the 11 digits the check digit is computed on
Eleven(d) == IF Len(d) < 11 THEN LeftPad11(d) ELSE First11(d)

\* weight 3 at even 0-based index (odd 1-based position), weight 1 elsewhere
WeightedSum(e) ==
    3 * (DigitValue(e[1]) + DigitValue(e[3]) + DigitValue(e[5])
            + DigitValue(e[7]) + DigitValue(e[9]) + DigitValue(e[11]))
      + (DigitValue(e[2]) + DigitValue(e[4]) + DigitValue(e[6])
            + DigitValue(e[8]) + DigitValue(e[10]))

CheckDigit(e) == (10 - (WeightedSum(e) % 10)) % 10

\* D-DDDDD-DDDDD-D
Group1551(c) ==
    <<c[1], "-", c[2], c[3], c[4], c[5], c[6], "-",
      c[7], c[8], c[9], c[10], c[11], "-", c[12]>>

Policies == {"auto", "validate", "recalculate"}

----------------------------------------------------------------------------
(* Properties                                                              *)

\* C1: for every input string, calculateChecksum returns
\* (10 - (S mod 10)) mod 10, S the weighted sum (3 at even index, 1 at odd)
\* of the 11 digits left after removing non-digits, left-padding with "0"
\* to 11 and truncating to 11; the result is an integer in 0..9.
C1_ChecksumFormula ==
    op = "calculateChecksum" =>
        /\ ret.kind = "number"
        /\ ret.value = CheckDigit(Eleven(DigitsOf(code)))
        /\ ret.value \in 0..9

\* C1 witness: a checksum was computed for digits whose weighted sum is a
\* multiple of 10, the case the final "mod 10" exists for.
C1_Witness ==
    /\ op = "calculateChecksum"
    /\ WeightedSum(Eleven(DigitsOf(code))) % 10 = 0
    /\ WeightedSum(Eleven(DigitsOf(code))) > 0
    /\ ret.value = 0

C3_ValidatePolicy ==
    (op = "normalizeInput" /\ options.checksum = "validate"
        /\ Len(DigitsOf(code)) = 12) =>
        LET d        == DigitsOf(code)
            expected == calculateChecksum(First11(d))
            provided == DigitValue(d[12])
        IN  IF provided # expected
            THEN /\ ret.kind = "throw"
                 /\ ret.message = <<"Invalid UPC-A checksum: expected ",
                                    Numerals[expected + 1], ", got ",
                                    Numerals[provided + 1]>>
            ELSE /\ ret.kind = "string"
                 /\ ret.value = d

\* C3 witness: policy validate refused twelve digits with a wrong check digit.
C3_Witness ==
    /\ op = "normalizeInput"
    /\ options.checksum = "validate"
    /\ Len(DigitsOf(code)) = 12
    /\ ret.kind = "throw"

\* C4: when the sanitized input has exactly 12 digits, normalizeInput under
\* policy auto and under policy recalculate returns the first 11 digits
\* followed by calculateChecksum of them, never an error; both policies
\* return the same function of the input.
C4_AutoEqualsRecalculate ==
    (op = "normalizeInput" /\ options.checksum \in {"auto", "recalculate"}
        /\ Len(DigitsOf(code)) = 12) =>
        /\ ret.kind = "string"
        /\ ret.value = First11(DigitsOf(code))
               \o <<Numerals[calculateChecksum(First11(DigitsOf(code))) + 1]>>
        /\ ret = normalizeInput(code, [checksum |-> "auto"])
        /\ ret = normalizeInput(code, [checksum |-> "recalculate"])

\* C4 witness: policy auto overwrote a wrong 12th digit.
C4_Witness ==
    /\ op = "normalizeInput"
    /\ options.checksum = "auto"
    /\ Len(DigitsOf(code)) = 12
    /\ ret.kind = "string"
    /\ ret.value # DigitsOf(code)

\* C5 (as claimed): when the sanitized input has 0 digits or more than 12,
\* normalizeInput fails with the invalid-length error under every policy.
C5_Claimed_InvalidLength ==
    (op = "normalizeInput"
        /\ (Len(DigitsOf(code)) = 0 \/ Len(DigitsOf(code)) > 12)) =>
        /\ ret.kind = "throw"
        /\ ret.message = <<"UPC-A requires 11 or 12 digits">>

C7_Validate ==
    op = "validate" =>
        LET d == DigitsOf(code)
        IN  /\ ret.kind = "boolean"
            /\ ret.value =
                   (\/ Len(d) \in 1..11
                    \/ /\ Len(d) = 12
                       /\ DigitValue(d[12]) = calculateChecksum(First11(d)))

\* C7 witness: validate refused an input without any digit.
C7_Witness ==
    /\ op = "validate"
    /\ Len(DigitsOf(code)) = 0
    /\ ret.kind = "boolean"
    /\ ret.value = FALSE

CleanTwelve(s) == Len(s) = 12 /\ ~HasNonDigit(s)

\* C9 (as claimed): formatUPC returns the 1-5-5-1 grouping of the input
\* itself when the input is a clean string of 12 digits, and otherwise of
\* normalizeInput(input) under policy auto (read here only for the inputs
\* normalizeInput accepts).
C9_Claimed_NormalizesUnlessClean ==
    (op = "formatUPC"
        /\ (CleanTwelve(code)
               \/ normalizeInput(code, [checksum |-> "auto"]).kind = "string")) =>
        /\ ret.kind = "string"
        /\ ret.value = Group1551(
               IF CleanTwelve(code) THEN code
               ELSE normalizeInput(code, [checksum |-> "auto"]).value)

\* C9 (amended): formatUPC returns the 1-5-5-1 grouping of the sanitized
\* input itself when the sanitized input has exactly 12 digits (the check
\* digit is kept as given), and otherwise of normalizeInput(input) under
\* policy auto; when that normalization fails, formatUPC fails with the same
\* error.
C9_FormatUPC ==
    op = "formatUPC" =>
        LET d == DigitsOf(code)
            n == normalizeInput(code, [checksum |-> "auto"])
        IN  IF Len(d) = 12
            THEN ret.kind = "string" /\ ret.value = Group1551(d)
            ELSE IF n.kind = "string"
            THEN ret.kind = "string" /\ ret.value = Group1551(n.value)
            ELSE ret = n

\* C9 witness: twelve digits written with separators and a wrong check digit
\* were formatted.
C9_Witness ==
    /\ op = "formatUPC"
    /\ HasNonDigit(code)
    /\ Len(DigitsOf(code)) = 12
    /\ DigitValue(DigitsOf(code)[12])
           # calculateChecksum(First11(DigitsOf(code)))
    /\ ret.kind = "string"

\* C10: when normalizeInput(x, auto) succeeds, normalizeInput of its result
\* under policy validate does not fail and returns that same 12-digit code.
C10_NormalizeIdempotent ==
    (origin.from = "normalizeInput" /\ origin.checksum = "auto"
        /\ op = "normalizeInput" /\ options.checksum = "validate") =>
        /\ ret.kind = "string"
        /\ ret.value = code

\* C10 witness: a code returned under policy auto was normalized again under
\* policy validate.
C10_Witness ==
    /\ origin.from = "normalizeInput"
    /\ origin.checksum = "auto"
    /\ op = "normalizeInput"
    /\ options.checksum = "validate"
    /\ ret.kind = "string"

----------------------------------------------------------------------------
(* Vocabulary of the rendering properties                                  *)

Rendered == op \in {"render", "renderSVG"} /\ ret.kind = "element"

\* what an element shows, whichever renderer drew it: its size, its
\* background, its bars as <<x, y, width, height>> and its digits as
\* <<text, x, alignment>> with the raster names of the alignments
Shown(el) ==
    IF el.tag = "canvas"
    THEN LET rects == SelectSeq(el.drawn, LAMBDA d : d.cmd = "fillRect")
             texts == SelectSeq(el.drawn, LAMBDA d : d.cmd = "fillText")
         IN  [width  |-> el.width, height |-> el.height,
              background |-> <<rects[1].width, rects[1].height>>,
              bars   |-> [k \in 1..(Len(rects) - 1) |->
                             <<rects[k + 1].x, rects[k + 1].y,
                               rects[k + 1].width, rects[k + 1].height>>],
              digits |-> [k \in 1..Len(texts) |->
                             <<texts[k].text, texts[k].x, texts[k].textAlign>>]]
    ELSE LET rects == SelectSeq(el.children, LAMBDA d : d.tag = "rect")
             texts == SelectSeq(el.children, LAMBDA d : d.tag = "text")
         IN  [width  |-> el.attrs.width, height |-> el.attrs.height,
              background |-> <<rects[1].width, rects[1].height>>,
              bars   |-> [k \in 1..(Len(rects) - 1) |->
                             <<rects[k + 1].x, rects[k + 1].y,
                               rects[k + 1].width, rects[k + 1].height>>],
              digits |-> [k \in 1..Len(texts) |->
                             <<texts[k].textContent, texts[k].x,
                               CASE texts[k].anchor = "end" -> "right"
                                 [] texts[k].anchor = "middle" -> "center"
                                 [] texts[k].anchor = "start" -> "left">>]]

\* first pattern module of the cell that encodes fullCode digit k (1..10)
CellStart(k) == IF k <= 5 THEN 3 + 7 * k ELSE 50 + 7 * (k - 6)

\* x of the centre of modules first .. first + 6, from the start guard at x0
CellCentre(x0, first, moduleWidth) ==
    x0 + first * moduleWidth + (7 * moduleWidth) \div 2

----------------------------------------------------------------------------
(* Rendering properties                                                    *)

\* C11 (as claimed): in both renderers, when fontSize > 0, each middle digit
\* k of fullCode (1..10) is drawn centre-aligned at the horizontal centre of
\* the seven pattern modules that encode digit k, measured from the x of the
\* start guard.
C11_Claimed_DigitUnderOwnCell ==
    (Rendered /\ mergeOptions(options).fontSize > 0) =>
        LET shown == Shown(element)
            x0    == shown.bars[1][1]
            mw    == shown.bars[1][3]
        IN  \A k \in 1..10 :
                /\ shown.digits[k + 1][3] = "center"
                /\ shown.digits[k + 1][2] = CellCentre(x0, CellStart(k), mw)

\* C12: for every code and options, render and renderSVG compute the same
\* total width and height, emit a bar for exactly the modules whose pattern
\* bit is 1 with the same x, y, width and height, and place the twelve
\* digits at the same x with corresponding alignment (right/end, then ten
\* center/middle, then left/start).
C12_RenderersAgree ==
    Rendered =>
        LET other == IF op = "render"
                     THEN renderSVG(EmptySvg, code, options).target
                     ELSE render(BlankCanvas, code, options).target
            mine  == Shown(element)
            its   == Shown(other)
            enc   == encode(code, [checksum |-> mergeOptions(options).checksum])
            ones  == SelectSeq(enc.encoding, LAMBDA b : b = "1")
        IN  /\ other.tag # element.tag
            /\ mine.width = its.width /\ mine.height = its.height
            /\ mine.background = its.background
            /\ mine.background = <<mine.width, mine.height>>
            /\ mine.bars = its.bars
            /\ Len(mine.bars) = Len(ones)
            /\ \A k \in 1..Len(mine.bars) :
                   LET i == (mine.bars[k][1] - mine.bars[1][1])
                                \div mine.bars[1][3]
                   IN  /\ mine.bars[k][1]
                              = mine.bars[1][1] + i * mine.bars[1][3]
                       /\ enc.encoding[i + 1] = "1"
                       /\ k > 1 => mine.bars[k][1] > mine.bars[k - 1][1]
            /\ mine.digits = its.digits
            /\ Len(mine.digits)
                   = IF mergeOptions(options).fontSize > 0 THEN 12 ELSE 0
            /\ \A k \in 1..Len(mine.digits) :
                   /\ mine.digits[k][1] = enc.fullCode[k]
                   /\ mine.digits[k][3] = IF k = 1 THEN "right"
                                          ELSE IF k = 12 THEN "left"
                                          ELSE "center"

\* C12 witness: a notched barcode with digits was drawn with padding and
\* non-default font sizes.
C12_Witness ==
    /\ Rendered
    /\ "paddingLeft" \in DOMAIN options
    /\ mergeOptions(options).fontSize > 0
    /\ Len(Shown(element).digits) = 12
    /\ Len(Shown(element).bars) > 12

\* C13: after any successful renderSVG call the element's children and its
\* width, height and viewBox attributes are those a single call with the
\* same code and options produces on an empty element; nothing drawn or
\* present earlier remains.
C13_RenderSVGReplacesContent ==
    (op = "renderSVG" /\ ret.kind = "element") =>
        LET fresh == renderSVG(EmptySvg, code, options).target
        IN  /\ element.children = fresh.children
            /\ element.children[1].tag = "rect"
            /\ \A k \in 1..Len(element.children) :
                   element.children[k].tag \in {"rect", "text"}
            /\ element.attrs.width = fresh.attrs.width
            /\ element.attrs.height = fresh.attrs.height
            /\ element.attrs.viewBox = fresh.attrs.viewBox
            /\ element.attrs.viewBox
                   = <<0, 0, element.attrs.width, element.attrs.height>>

\* C13 witness: renderSVG succeeded on the element that came with a child
\* and attributes of its own (its class attribute is still there).
C13_Witness ==
    /\ op = "renderSVG"
    /\ ret.kind = "element"
    /\ "class" \in DOMAIN element.attrs
    /\ Len(element.children) > 1

\* the element kind a renderer accepts
Accepts(renderer, el) ==
    IF renderer = "render" THEN el.tag = "canvas" ELSE el.tag # "null"

\* C14: a render or renderSVG call whose code fails normalization raises
\* that error and leaves the resolved target exactly as it was; a call whose
\* target cannot be resolved raises the invalid-target error whatever the
\* code is.
C14_FailureLeavesTarget ==
    [][op' \in {"render", "renderSVG"} =>
          LET n  == normalizeInput(code',
                        [checksum |-> mergeOptions(options').checksum])
              el == IF target' = "element" THEN element ELSE Null
          IN  /\ ~Accepts(op', el) =>
                     /\ ret' = Throw(IF op' = "render"
                                     THEN <<"Invalid canvas element">>
                                     ELSE <<"Invalid SVG element">>)
                     /\ element' = element
              /\ (Accepts(op', el) /\ n.kind = "throw") =>
                     /\ ret' = n
                     /\ element' = element
              /\ ret'.kind = "throw" => element' = element]_vars

\* C14 witness: renderSVG refused a code under policy validate while the
\* element still holds what an earlier call drew.
C14_Witness ==
    /\ op = "renderSVG"
    /\ target = "element"
    /\ ret.kind = "throw"
    /\ ret.message[1] = "Invalid UPC-A checksum: expected "
    /\ element.tag = "svg"
    /\ Len(element.children) > 1

====
